---- MODULE Spec2Model ----
(***************************************************************************)
(* Pagination engine of the TipTap word processor: the live height         *)
(* estimator and page breaker of components/Tiptap.jsx, the pagination     *)
(* plugin that caches their result, and the page assignment and export    *)
(* run of lib/pdfExport.ts (both listed in README.md); the month grid of   *)
(* the calendar project (project/src/utils/calendar.ts).                   *)
(***************************************************************************)
EXTENDS Integers, Sequences, FiniteSets, TLC

VARIABLES doc, pluginState, selection, lastTr, decorationSet, viewPending,
          isExporting, inFlight, run, body, pdf, alerts, env, calendar

editorVars == <<doc, pluginState, selection, lastTr, decorationSet, viewPending>>

\* isExporting: the busy flag of the editor component; inFlight: calls of
\* exportToPDF that have started and not yet settled; run: the position and
\* locals of the running exportToPDF; body: render containers attached to
\* document.body; pdf: the jsPDF document; alerts: alerts shown by the last
\* handleExportPDF; env: what the export finds (content element, options).
exportVars == <<isExporting, inFlight, run, body, pdf, alerts, env>>

vars == <<doc, pluginState, selection, lastTr, decorationSet, viewPending,
          isExporting, inFlight, run, body, pdf, alerts, env, calendar>>

(***************************************************************************)
(* Bounds of the model.                                                    *)
(***************************************************************************)
MaxBlocks == 4
MaxParagraphs == 45
MaxDepth == 2
MaxChildren == 2

(***************************************************************************)
(* Layout constants (Tiptap.jsx).                                          *)
(***************************************************************************)
A4_WIDTH == 794
A4_HEIGHT == 1123
PAGE_MARGIN_TOP == 64
PAGE_MARGIN_BOTTOM == 64
PAGE_MARGIN_LEFT == 64
PAGE_MARGIN_RIGHT == 64
\* The content height with only the top margin taken off.
CONTENT_HEIGHT_oneMargin == A4_HEIGHT - PAGE_MARGIN_TOP

CONTENT_HEIGHT == A4_HEIGHT - PAGE_MARGIN_TOP - PAGE_MARGIN_BOTTOM
CONTENT_WIDTH == A4_WIDTH - PAGE_MARGIN_LEFT - PAGE_MARGIN_RIGHT
PAGE_GAP == 40

HEIGHT_ESTIMATES ==
  [paragraph |-> 28, heading1 |-> 56, heading2 |-> 44, heading3 |-> 36,
   listItem |-> 28, blockquote |-> 60, codeBlock |-> 80,
   horizontalRule |-> 40, pageBreak |-> 0, default |-> 28]

charsPerLine == 70

(***************************************************************************)
(* Document nodes.  A node carries its type name, the heading level, the   *)
(* length of its text content, the number of newlines in that text and     *)
(* its child nodes.                                                        *)
(***************************************************************************)
Node(type, level, textLength, newlines, content) ==
  [type |-> type, level |-> level, textLength |-> textLength,
   newlines |-> newlines, content |-> content, height |-> 0]

Heading(level) == Node("heading", level, 10, 0, <<>>)
Paragraph(len) == Node("paragraph", 0, len, 0, <<>>)
ListItem(children) == Node("listItem", 0, 0, 0, children)
BulletList(items) == Node("bulletList", 0, 0, 0, items)
HorizontalRule == Node("horizontalRule", 0, 0, 0, <<>>)
PageBreak == Node("pageBreak", 0, 0, 0, <<>>)
OrderedList(items) == Node("orderedList", 0, 0, 0, items)
Blockquote(children) == Node("blockquote", 0, 0, 0, children)
CodeBlock(newlines) == Node("codeBlock", 0, newlines + 10, newlines, <<>>)
HardBreak == Node("hardBreak", 0, 0, 0, <<>>)
\* An image node; height 0 stands for an absent height attribute.
Image(height) == [Node("image", 0, 0, 0, <<>>) EXCEPT !.height = height]
\* A node of a type the estimator does not know.
Table == Node("table", 0, 0, 0, <<>>)

\* ceil(a / b) for naturals, as Math.ceil(textLength / charsPerLine)
Ceil(a, b) == (a + b - 1) \div b

Max(a, b) == IF a >= b THEN a ELSE b

\* Leaf block nodes (atoms) have no content and count one position.
IsLeaf(node) == node.type \in {"horizontalRule", "pageBreak", "image", "hardBreak"}

\* Text blocks hold their text directly.
IsTextBlock(node) == node.type \in {"paragraph", "heading", "codeBlock"}

leafSizeZero(node) == 0

\* Size of a leaf node in document positions.
leafSize(node) == 1

RECURSIVE nodeSize(_)
\* Number of document positions a node spans; doc.forEach reports the sum
\* of the sizes of the preceding siblings as the offset of a child.
nodeSize(node) ==
  IF IsLeaf(node) THEN leafSize(node)
  ELSE IF IsTextBlock(node) THEN node.textLength + 2
  ELSE LET ch == node.content
           sz[i \in 0..Len(ch)] ==
             IF i = 0 THEN 0 ELSE sz[i - 1] + nodeSize(ch[i])
       IN  sz[Len(ch)] + 2

RECURSIVE estimateNodeHeight_noMargin(_)
estimateNodeHeight_noMargin(node) ==
  LET ch == node.content
      sum[i \in 0..Len(ch)] ==
        IF i = 0 THEN 0 ELSE sum[i - 1] + estimateNodeHeight_noMargin(ch[i])
  IN
  CASE node.type = "heading" ->
         IF node.level = 1 THEN HEIGHT_ESTIMATES.heading1
         ELSE IF node.level = 2 THEN HEIGHT_ESTIMATES.heading2
         ELSE HEIGHT_ESTIMATES.heading3
    [] node.type = "paragraph" ->
         Max(1, Ceil(node.textLength, charsPerLine)) * HEIGHT_ESTIMATES.paragraph
    [] node.type \in {"bulletList", "orderedList"} -> 16 + sum[Len(ch)]
    [] node.type = "listItem" -> Max(HEIGHT_ESTIMATES.listItem, sum[Len(ch)])
    [] node.type = "blockquote" -> 32 + sum[Len(ch)]
    [] node.type = "codeBlock" -> (node.newlines + 1) * 24 + 32
    [] node.type = "horizontalRule" -> HEIGHT_ESTIMATES.horizontalRule
    [] node.type = "hardBreak" -> HEIGHT_ESTIMATES.paragraph
    [] OTHER -> HEIGHT_ESTIMATES.default

RECURSIVE estimateNodeHeight(_)
\* Tiptap.jsx estimateNodeHeight: the switch over node.type.name.
estimateNodeHeight(node) ==
  LET ch == node.content
      sum[i \in 0..Len(ch)] ==
        IF i = 0 THEN 0 ELSE sum[i - 1] + estimateNodeHeight(ch[i])
  IN
  CASE node.type = "heading" ->
         IF node.level = 1 THEN HEIGHT_ESTIMATES.heading1
         ELSE IF node.level = 2 THEN HEIGHT_ESTIMATES.heading2
         ELSE HEIGHT_ESTIMATES.heading3
    [] node.type = "paragraph" ->
         Max(1, Ceil(node.textLength, charsPerLine)) * HEIGHT_ESTIMATES.paragraph + 16
    [] node.type \in {"bulletList", "orderedList"} -> 16 + sum[Len(ch)]
    [] node.type = "listItem" -> Max(HEIGHT_ESTIMATES.listItem, sum[Len(ch)])
    [] node.type = "blockquote" -> 32 + sum[Len(ch)]
    [] node.type = "codeBlock" -> (node.newlines + 1) * 24 + 32
    [] node.type = "horizontalRule" -> HEIGHT_ESTIMATES.horizontalRule
    [] node.type = "hardBreak" -> HEIGHT_ESTIMATES.paragraph
    [] OTHER -> HEIGHT_ESTIMATES.default

(***************************************************************************)
(* Live page breaker (Tiptap.jsx calculatePageBreaks).                     *)
(***************************************************************************)
calculatePageBreaks_start0 ==
  [pageBreaks |-> <<>>, currentPageHeight |-> 0, currentPageNumber |-> 0]

\* The local variables before the loop.
calculatePageBreaks_start ==
  [pageBreaks |-> <<>>, currentPageHeight |-> 0, currentPageNumber |-> 1]

\* The callback without the "page already has content" test.
calculatePageBreaks_visit_noGuard(st, node, offset) ==
  LET nodeHeight == estimateNodeHeight(node) IN
  IF st.currentPageHeight + nodeHeight > CONTENT_HEIGHT
  THEN [pageBreaks |-> Append(st.pageBreaks,
                         [pos |-> offset,
                          pageNumber |-> st.currentPageNumber,
                          remainingSpace |-> CONTENT_HEIGHT - st.currentPageHeight]),
        currentPageNumber |-> st.currentPageNumber + 1,
        currentPageHeight |-> nodeHeight]
  ELSE [st EXCEPT !.currentPageHeight = @ + nodeHeight]

\* The callback that pushes a break without counting the new page.
calculatePageBreaks_visit_noIncrement(st, node, offset) ==
  LET nodeHeight == estimateNodeHeight(node) IN
  IF st.currentPageHeight + nodeHeight > CONTENT_HEIGHT /\ st.currentPageHeight > 0
  THEN [pageBreaks |-> Append(st.pageBreaks,
                         [pos |-> offset,
                          pageNumber |-> st.currentPageNumber,
                          remainingSpace |-> CONTENT_HEIGHT - st.currentPageHeight]),
        currentPageNumber |-> st.currentPageNumber,
        currentPageHeight |-> nodeHeight]
  ELSE [st EXCEPT !.currentPageHeight = @ + nodeHeight]

\* The callback of the pagination guide (plugin.ts), which breaks at every
\* pageBreak node unconditionally.
calculatePageBreaks_visit_forced(st, node, offset) ==
  LET nodeHeight == estimateNodeHeight(node) IN
  IF node.type = "pageBreak"
  THEN [pageBreaks |-> Append(st.pageBreaks,
                         [pos |-> offset,
                          pageNumber |-> st.currentPageNumber,
                          remainingSpace |-> CONTENT_HEIGHT - st.currentPageHeight]),
        currentPageNumber |-> st.currentPageNumber + 1,
        currentPageHeight |-> 0]
  ELSE IF st.currentPageHeight + nodeHeight > CONTENT_HEIGHT /\ st.currentPageHeight > 0
  THEN [pageBreaks |-> Append(st.pageBreaks,
                         [pos |-> offset,
                          pageNumber |-> st.currentPageNumber,
                          remainingSpace |-> CONTENT_HEIGHT - st.currentPageHeight]),
        currentPageNumber |-> st.currentPageNumber + 1,
        currentPageHeight |-> nodeHeight]
  ELSE [st EXCEPT !.currentPageHeight = @ + nodeHeight]

\* The callback that records the position just inside the node.
calculatePageBreaks_visit_inside(st, node, offset) ==
  LET nodeHeight == estimateNodeHeight(node) IN
  IF st.currentPageHeight + nodeHeight > CONTENT_HEIGHT /\ st.currentPageHeight > 0
  THEN [pageBreaks |-> Append(st.pageBreaks,
                         [pos |-> offset + 1,
                          pageNumber |-> st.currentPageNumber,
                          remainingSpace |-> CONTENT_HEIGHT - st.currentPageHeight]),
        currentPageNumber |-> st.currentPageNumber + 1,
        currentPageHeight |-> nodeHeight]
  ELSE [st EXCEPT !.currentPageHeight = @ + nodeHeight]

\* The callback of doc.forEach: one top-level node at its offset.
calculatePageBreaks_visit(st, node, offset) ==
  LET nodeHeight == estimateNodeHeight(node) IN
  IF st.currentPageHeight + nodeHeight > CONTENT_HEIGHT /\ st.currentPageHeight > 0
  THEN [pageBreaks |-> Append(st.pageBreaks,
                         [pos |-> offset,
                          pageNumber |-> st.currentPageNumber,
                          remainingSpace |-> CONTENT_HEIGHT - st.currentPageHeight]),
        currentPageNumber |-> st.currentPageNumber + 1,
        currentPageHeight |-> nodeHeight]
  ELSE [st EXCEPT !.currentPageHeight = @ + nodeHeight]

RECURSIVE calculatePageBreaks_forEach(_, _, _, _)
\* doc.forEach((node, offset) => ...): the children from the i-th on, in
\* order, each with the offset at which it starts.  (The tests on st and
\* offset never hold; they have the accumulated values computed at every
\* step instead of all at the end.)
calculatePageBreaks_forEach(d, i, st, offset) ==
  IF i > Len(d) \/ st.currentPageNumber < 0 \/ offset < 0 THEN st
  ELSE calculatePageBreaks_forEach(d, i + 1,
         calculatePageBreaks_visit(st, d[i], offset),
         offset + nodeSize(d[i]))

calculatePageBreaks(d) ==
  LET final == calculatePageBreaks_forEach(d, 1, calculatePageBreaks_start, 0)
  IN  [pageBreaks |-> final.pageBreaks, pageCount |-> final.currentPageNumber]

(***************************************************************************)
(* Pagination plugin state (paginationPlugin.state).                       *)
(***************************************************************************)
plugin_init(d) ==
  LET r == calculatePageBreaks(d) IN
  [pageBreaks |-> r.pageBreaks, pageCount |-> r.pageCount]

\* apply that recalculates on every transaction.
plugin_apply_always(docChanged, value, newDoc) ==
  LET r == calculatePageBreaks(newDoc) IN
  [value |-> [pageBreaks |-> r.pageBreaks, pageCount |-> r.pageCount],
   calls |-> 1]

\* apply with the docChanged test inverted.
plugin_apply_inverted(docChanged, value, newDoc) ==
  IF docChanged THEN [value |-> value, calls |-> 0]
  ELSE LET r == calculatePageBreaks(newDoc) IN
       [value |-> [pageBreaks |-> r.pageBreaks, pageCount |-> r.pageCount],
        calls |-> 1]

\* apply(tr, value, oldState, newState): the new plugin state, and the
\* number of calls of calculatePageBreaks it makes.
plugin_apply(docChanged, value, newDoc) ==
  IF ~docChanged THEN [value |-> value, calls |-> 0]
  ELSE LET r == calculatePageBreaks(newDoc) IN
       [value |-> [pageBreaks |-> r.pageBreaks, pageCount |-> r.pageCount],
        calls |-> 1]

(***************************************************************************)
(* Break presenter (createPageBreakDecoration, props.decorations).         *)
(***************************************************************************)
createPageBreakDecoration_noTopMargin(pos, pageNumber, totalPages, remainingSpace) ==
  [pos |-> pos,
   className |-> "pm-page-break-widget",
   contentEditable |-> "false",
   dataPageNumber |-> pageNumber,
   gapHeight |-> remainingSpace + PAGE_GAP + PAGE_MARGIN_BOTTOM,
   label |-> [page |-> pageNumber, of |-> totalPages],
   side |-> -1,
   key |-> pageNumber]

\* The widget decoration of one break: its position, the wrapper's class,
\* contentEditable and data-page-number, the gap height, the footer label
\* "Page <page> of <of>", and the widget's side and key.
createPageBreakDecoration(pos, pageNumber, totalPages, remainingSpace) ==
  [pos |-> pos,
   className |-> "pm-page-break-widget",
   contentEditable |-> "false",
   dataPageNumber |-> pageNumber,
   gapHeight |-> remainingSpace + PAGE_GAP + PAGE_MARGIN_BOTTOM + PAGE_MARGIN_TOP,
   label |-> [page |-> pageNumber, of |-> totalPages],
   side |-> -1,
   key |-> pageNumber]

\* props.decorations(state): DecorationSet.empty without breaks, else one
\* widget per break record, in the order of the records.
plugin_decorations(value) ==
  IF Len(value.pageBreaks) = 0 THEN <<>>
  ELSE [k \in 1..Len(value.pageBreaks) |->
          createPageBreakDecoration(value.pageBreaks[k].pos,
                                    value.pageBreaks[k].pageNumber,
                                    value.pageCount,
                                    value.pageBreaks[k].remainingSpace)]

(***************************************************************************)
(* Rendered editor content and the export page assignment (pdfExport.ts).  *)
(***************************************************************************)
Element(tagName, classList, textLength, liCount) ==
  [tagName |-> tagName, classList |-> classList, textLength |-> textLength,
   liCount |-> liCount]

RECURSIVE countListItems(_)
\* Number of li elements below a node, as node.querySelectorAll('li') finds them.
countListItems(node) ==
  LET ch == node.content
      cnt[i \in 0..Len(ch)] ==
        IF i = 0 THEN 0
        ELSE cnt[i - 1] + countListItems(ch[i])
             + (IF ch[i].type = "listItem" THEN 1 ELSE 0)
  IN  cnt[Len(ch)]

\* The DOM element a top-level node is rendered as.
renderHTML(node) ==
  LET tag == CASE node.type = "heading" /\ node.level = 1 -> "h1"
               [] node.type = "heading" /\ node.level = 2 -> "h2"
               [] node.type = "heading" /\ node.level = 3 -> "h3"
               [] node.type = "heading" -> "h4"
               [] node.type = "paragraph" -> "p"
               [] node.type = "bulletList" -> "ul"
               [] node.type = "orderedList" -> "ol"
               [] node.type = "blockquote" -> "blockquote"
               [] node.type = "codeBlock" -> "pre"
               [] node.type = "horizontalRule" -> "hr"
               [] OTHER -> "div"
  IN  Element(tag,
              IF node.type = "pageBreak" THEN {"manual-page-break"} ELSE {},
              node.textLength, countListItems(node))

\* The widget element of a page-break decoration.
pageBreakWidget == Element("div", {"pm-page-break-widget"}, 0, 0)

\* The widgets of the decorations placed at document position pos.
widgetsAt(pageBreaks, pos) ==
  LET w[k \in 0..Len(pageBreaks)] ==
        IF k = 0 THEN <<>>
        ELSE IF pageBreaks[k].pos = pos
             THEN Append(w[k - 1], pageBreakWidget)
             ELSE w[k - 1]
  IN  w[Len(pageBreaks)]

RECURSIVE editorChildren_from(_, _, _, _, _)
editorChildren_from(d, pageBreaks, i, offset, out) ==
  IF i > Len(d) THEN out
  ELSE editorChildren_from(d, pageBreaks, i + 1, offset + nodeSize(d[i]),
         out \o widgetsAt(pageBreaks, offset) \o <<renderHTML(d[i])>>)

\* Children of the .ProseMirror element: every top-level node in order, each
\* preceded by the widgets of the decorations placed at its offset (side: -1).
editorChildren(d, pageBreaks) == editorChildren_from(d, pageBreaks, 1, 0, <<>>)

WEB_A4_WIDTH_PX == 794
WEB_A4_HEIGHT_PX == 1123
WEB_PAGE_MARGIN_TOP_PX == 64
WEB_PAGE_MARGIN_BOTTOM_PX == 64
WEB_PAGE_MARGIN_LEFT_PX == 64
WEB_PAGE_MARGIN_RIGHT_PX == 64
WEB_CONTENT_HEIGHT_PX ==
  WEB_A4_HEIGHT_PX - WEB_PAGE_MARGIN_TOP_PX - WEB_PAGE_MARGIN_BOTTOM_PX
WEB_CONTENT_WIDTH_PX ==
  WEB_A4_WIDTH_PX - WEB_PAGE_MARGIN_LEFT_PX - WEB_PAGE_MARGIN_RIGHT_PX

pdfExport_HEIGHT_ESTIMATES ==
  [paragraph |-> 28, heading1 |-> 56, heading2 |-> 44, heading3 |-> 36,
   listItem |-> 28, blockquote |-> 60, horizontalRule |-> 40,
   pageBreak |-> 0, default |-> 28]

\* pdfExport.ts estimateNodeHeight: the table over the element's tag name.
pdfExport_estimateNodeHeight(node) ==
  IF node.tagName = "h1" THEN pdfExport_HEIGHT_ESTIMATES.heading1
  ELSE IF node.tagName = "h2" THEN pdfExport_HEIGHT_ESTIMATES.heading2
  ELSE IF node.tagName = "h3" THEN pdfExport_HEIGHT_ESTIMATES.heading3
  ELSE IF node.tagName = "blockquote" THEN pdfExport_HEIGHT_ESTIMATES.blockquote
  ELSE IF node.tagName = "hr" THEN pdfExport_HEIGHT_ESTIMATES.horizontalRule
  ELSE IF node.tagName \in {"ul", "ol"}
       THEN 16 + node.liCount * pdfExport_HEIGHT_ESTIMATES.listItem
  ELSE IF node.tagName = "p"
       THEN Max(1, Ceil(node.textLength, 70)) * pdfExport_HEIGHT_ESTIMATES.paragraph + 16
  ELSE IF "manual-page-break" \in node.classList
       THEN pdfExport_HEIGHT_ESTIMATES.pageBreak
  ELSE pdfExport_HEIGHT_ESTIMATES.default

\* One iteration of the loop that pushes a page at every manual break, also
\* when the current page is empty.
pdfExport_visit_alwaysPush(st, child, i) ==
  IF "pm-page-break-widget" \in child.classList THEN st
  ELSE IF "manual-page-break" \in child.classList
  THEN [pages |-> Append(st.pages, st.currentPage),
        currentPage |-> <<>>, currentHeight |-> 0]
  ELSE LET nodeHeight == pdfExport_estimateNodeHeight(child) IN
       IF st.currentHeight + nodeHeight > WEB_CONTENT_HEIGHT_PX
          /\ Len(st.currentPage) > 0
       THEN [pages |-> Append(st.pages, st.currentPage),
             currentPage |-> <<i>>, currentHeight |-> nodeHeight]
       ELSE [pages |-> st.pages,
             currentPage |-> Append(st.currentPage, i),
             currentHeight |-> st.currentHeight + nodeHeight]

\* One iteration of the loop over the children; i is the child's index.
pdfExport_visit(st, child, i) ==
  IF "pm-page-break-widget" \in child.classList THEN st
  ELSE IF "manual-page-break" \in child.classList
  THEN IF Len(st.currentPage) > 0
       THEN [pages |-> Append(st.pages, st.currentPage),
             currentPage |-> <<>>, currentHeight |-> 0]
       ELSE st
  ELSE LET nodeHeight == pdfExport_estimateNodeHeight(child) IN
       IF st.currentHeight + nodeHeight > WEB_CONTENT_HEIGHT_PX
          /\ Len(st.currentPage) > 0
       THEN [pages |-> Append(st.pages, st.currentPage),
             currentPage |-> <<i>>, currentHeight |-> nodeHeight]
       ELSE [pages |-> st.pages,
             currentPage |-> Append(st.currentPage, i),
             currentHeight |-> st.currentHeight + nodeHeight]

RECURSIVE pdfExport_loop(_, _, _)
\* for (let i = 0; i < children.length; i++): children[i] is the (i+1)-th
\* element of the sequence.
pdfExport_loop(children, i, st) ==
  IF i >= Len(children) THEN st
  ELSE pdfExport_loop(children, i + 1, pdfExport_visit(st, children[i + 1], i))

\* pdfExport.ts calculatePageBreaks: the pages as lists of child indices
\* (0-based, as in the code).
pdfExport_calculatePageBreaks(children) ==
  LET final == pdfExport_loop(children, 0,
                 [pages |-> <<>>, currentPage |-> <<>>, currentHeight |-> 0])
  IN  IF Len(final.currentPage) > 0
      THEN Append(final.pages, final.currentPage)
      ELSE final.pages

(***************************************************************************)
(* exportToPDF (pdfExport.ts) and handleExportPDF (Tiptap.jsx): data.      *)
(***************************************************************************)
MaxExportPages == 3
MaxQuality == 5

\* An option the caller did not give.
Absent == <<>>

\* const { quality = 2 } = options: the default applies to an absent option
\* only; the value is the scale handed to html2canvas.
exportToPDF_quality(options) ==
  IF options.quality = Absent THEN 2 ELSE options.quality[1]

\* The locals of exportToPDF: pc is "idle" (no call), "fonts" (awaiting
\* document.fonts.ready), "capture" (awaiting html2canvas) or "settled" (the
\* promise has resolved or rejected and the caller has not resumed yet);
\* failed is the set of pages (1-based) whose capture was caught failing.
NoRun ==
  [pc |-> "idle", pageIndex |-> 0, totalPages |-> 0, scale |-> 0,
   failed |-> {}, outcome |-> "none"]

\* No jsPDF document; new jsPDF() has one page and no image.
NoPdf == [pages |-> 0, images |-> <<>>, saved |-> FALSE]
NewPdf == [pages |-> 1, images |-> <<>>, saved |-> FALSE]

\* No month grid has been generated.
NoCalendar == [year |-> 0, month |-> 0, days |-> <<>>, months |-> <<>>]

(***************************************************************************)
(* The editor.                                                             *)
(***************************************************************************)
\* Blocks the user inserts in the model; the pageBreak node is inserted by
\* its own command.
LongParagraph == Paragraph(2380)
OversizedParagraph == Paragraph(2381)
EditorBlocks ==
  {Heading(1), Paragraph(50), LongParagraph, OversizedParagraph,
   BulletList(<<ListItem(<<Paragraph(50)>>)>>), HorizontalRule}

InsertAt(d, i, b) == SubSeq(d, 1, i) \o <<b>> \o SubSeq(d, i + 1, Len(d))
RemoveAt(d, i) == SubSeq(d, 1, i - 1) \o SubSeq(d, i + 1, Len(d))

\* The editor after construction, with the document d.
EditorInit(d) ==
  /\ doc = d
  /\ pluginState = plugin_init(doc)
  /\ selection = 0
  /\ lastTr = [docChanged |-> FALSE, calls |-> 0]
  /\ decorationSet = plugin_decorations(pluginState)
  /\ viewPending = FALSE

\* No export has been started: useState(false), nothing attached, no PDF.
ExportIdle ==
  /\ isExporting = FALSE
  /\ inFlight = 0
  /\ run = NoRun
  /\ body = 0
  /\ pdf = NoPdf
  /\ alerts = 0

Init ==
  /\ EditorInit(<<>>)
  /\ ExportIdle
  /\ env = [editorFound |-> TRUE, quality |-> Absent, saveThrows |-> FALSE]
  /\ calendar = NoCalendar

\* Dispatching a transaction: the plugin's apply gives the new plugin state;
\* lastTr records the transaction's docChanged and the number of calls of
\* calculatePageBreaks apply made; the view has its update pending.
Dispatch(docChanged, newDoc, newSelection) ==
  LET applied == plugin_apply(docChanged, pluginState, newDoc) IN
  /\ ~viewPending
  /\ doc' = newDoc
  /\ selection' = newSelection
  /\ pluginState' = applied.value
  /\ lastTr' = [docChanged |-> docChanged, calls |-> applied.calls]
  /\ viewPending' = TRUE
  /\ decorationSet' = decorationSet
  /\ UNCHANGED <<exportVars, calendar>>

\* commands.insertContent(block): a transaction that changes the document.
InsertContent ==
  \E b \in EditorBlocks :
    /\ Len(doc) < MaxBlocks
    /\ Dispatch(TRUE, InsertAt(doc, selection, b), selection + 1)

\* insertPageBreak: insertContent({ type: 'pageBreak' }).
insertPageBreak ==
  /\ Len(doc) < MaxBlocks
  /\ Dispatch(TRUE, InsertAt(doc, selection, PageBreak), selection + 1)

\* Deleting the block before the cursor: a transaction that changes the document.
DeleteBlock ==
  /\ selection > 0
  /\ Dispatch(TRUE, RemoveAt(doc, selection), selection - 1)

\* Moving the cursor: a transaction with docChanged = false.
SetSelection ==
  \E s \in 0..Len(doc) :
    /\ s # selection
    /\ Dispatch(FALSE, doc, s)

\* The view update that writes the break widgets into the document and
\* dispatches that change.
decorations_writesDocument ==
  /\ viewPending
  /\ decorationSet' = plugin_decorations(pluginState)
  /\ viewPending' = FALSE
  /\ doc' = (IF Len(pluginState.pageBreaks) = 0 THEN doc ELSE Append(doc, PageBreak))
  /\ pluginState' = plugin_apply(TRUE, pluginState, doc').value
  /\ lastTr' = [docChanged |-> TRUE, calls |-> 1]
  /\ selection' = selection
  /\ UNCHANGED <<exportVars, calendar>>

\* The view update after a transaction: props.decorations(state) builds the
\* decoration set from the plugin state.
decorations ==
  /\ viewPending
  /\ decorationSet' = plugin_decorations(pluginState)
  /\ viewPending' = FALSE
  /\ UNCHANGED <<doc, pluginState, selection, lastTr>>
  /\ UNCHANGED <<exportVars, calendar>>

Next ==
  InsertContent \/ insertPageBreak \/ DeleteBlock \/ SetSelection \/ decorations

Spec == Init /\ [][Next]_vars

(***************************************************************************)
(* A document of short paragraphs only: paragraphs are typed one after     *)
(* the other at the end of the document.                                   *)
(***************************************************************************)
ShortLengths == {0, 50, 70}

\* Typing one more paragraph of at most 70 characters at the end.  All
\* paragraphs have 50 characters except at most one.
TypeParagraph ==
  \E len \in ShortLengths :
    /\ Len(doc) < MaxParagraphs
    /\ len = 50 \/ \A i \in 1..Len(doc) : doc[i].textLength = 50
    /\ Dispatch(TRUE, Append(doc, Paragraph(len)), Len(doc) + 1)

\* Moving the cursor to the start or the end: docChanged = false.
MoveCursor ==
  \E s \in {0, Len(doc)} :
    /\ s # selection
    /\ Dispatch(FALSE, doc, s)

NextPara == TypeParagraph \/ MoveCursor \/ decorations

SpecPara == Init /\ [][NextPara]_vars

(***************************************************************************)
(* Documents with one nested block: the last block of the document is      *)
(* replaced, wrapped in a container or given one more child; a long        *)
(* paragraph can be put in front of it and a paragraph after it.           *)
(***************************************************************************)
LeafBlocks ==
  {Heading(1), Heading(2), Heading(3), Heading(4),
   Paragraph(0), Paragraph(1), Paragraph(70), Paragraph(71), Paragraph(141),
   CodeBlock(0), CodeBlock(1), CodeBlock(3),
   HorizontalRule, HardBreak, Image(0), Image(300), PageBreak, Table,
   ListItem(<<>>)}

ChildBlocks == {Paragraph(50), Paragraph(71)}

ContainerTypes == {"bulletList", "orderedList", "listItem", "blockquote"}

RECURSIVE Depth(_)
\* Nesting depth of a node: 0 for a node without children.
Depth(node) ==
  LET ch == node.content
      m[i \in 0..Len(ch)] == IF i = 0 THEN 0 ELSE Max(m[i - 1], 1 + Depth(ch[i]))
  IN  m[Len(ch)]

ReplaceLast(d, b) == IF Len(d) = 0 THEN <<b>> ELSE [d EXCEPT ![Len(d)] = b]

\* Replacing the last block by a block without children.
SetBlock ==
  \E b \in LeafBlocks :
    /\ Len(doc) <= 1
    /\ Dispatch(TRUE, ReplaceLast(doc, b), Len(doc))

\* Wrapping the last block in a list, a list item or a blockquote.
WrapBlock ==
  \E t \in ContainerTypes :
    /\ Len(doc) = 1
    /\ Depth(doc[1]) < MaxDepth
    /\ Dispatch(TRUE, <<Node(t, 0, 0, 0, <<doc[1]>>)>>, 1)

\* Giving the last block, a container, one more child.
AddChild ==
  \E b \in ChildBlocks :
    /\ Len(doc) = 1
    /\ doc[1].type \in ContainerTypes
    /\ Len(doc[1].content) < MaxChildren
    /\ Dispatch(TRUE, <<[doc[1] EXCEPT !.content = Append(@, b)]>>, 1)

\* Putting a long paragraph in front of the block and a paragraph after it.
Surround ==
  /\ Len(doc) = 1
  /\ Dispatch(TRUE, <<LongParagraph, doc[1], Paragraph(50)>>, 3)

NextNested == SetBlock \/ WrapBlock \/ AddChild \/ Surround \/ decorations

SpecNested == Init /\ [][NextNested]_vars

(***************************************************************************)
(* The export run: a click on the Export PDF button calls handleExportPDF, *)
(* which awaits exportToPDF; exportToPDF awaits document.fonts.ready and   *)
(* html2canvas once per page.  Each action is the code between two awaits. *)
(***************************************************************************)
\* n long paragraphs: a document of n export pages.
LongParagraphs(n) == [i \in 1..n |-> LongParagraph]

ExportDocs ==
  {LongParagraphs(n) : n \in 0..MaxExportPages}
    \cup {<<PageBreak>>, <<Heading(1), PageBreak, Paragraph(50)>>,
          <<LongParagraph, Paragraph(50)>>}

\* The editor shows one of the documents; the content element is found or
\* not; the caller's quality option is absent or a number; pdf.save throws
\* or not.
InitExport ==
  /\ \E d \in ExportDocs : EditorInit(d)
  /\ ExportIdle
  /\ env \in [editorFound : BOOLEAN,
              quality : {Absent} \cup {<<q>> : q \in 0..MaxQuality},
              saveThrows : BOOLEAN]
  /\ calendar = NoCalendar

\* pdf.save(filename) at the end of exportToPDF, and the promise's outcome.
exportToPDF_save(p) ==
  IF env.saveThrows
  THEN [pdf |-> p, outcome |-> "rejected"]
  ELSE [pdf |-> [p EXCEPT !.saved = TRUE], outcome |-> "resolved"]

\* exportToPDF from its call to its first await (or to its return).
exportToPDF_begin ==
  LET ch == editorChildren(doc, pluginState.pageBreaks)
      children == {c \in 1..Len(ch) : "pm-page-break-widget" \notin ch[c].classList}
      pageBreaks == pdfExport_calculatePageBreaks(ch)
      totalPages == Len(pageBreaks)
      saved == exportToPDF_save(NewPdf)
  IN  IF ~env.editorFound \/ Cardinality(children) = 0
      THEN /\ run' = [NoRun EXCEPT !.pc = "settled", !.outcome = "resolved"]
           /\ pdf' = NoPdf
           /\ body' = body
      ELSE IF totalPages = 0
      THEN /\ run' = [NoRun EXCEPT !.pc = "settled", !.outcome = saved.outcome]
           /\ pdf' = saved.pdf
           /\ body' = body
      ELSE /\ run' = [NoRun EXCEPT !.pc = "fonts", !.totalPages = totalPages]
           /\ pdf' = NewPdf
           /\ body' = body + 1

\* handleExportPDF without the test of the busy flag.
handleExportPDF_noGuard ==
  /\ isExporting' = TRUE
  /\ alerts' = 0
  /\ inFlight' = inFlight + 1
  /\ inFlight < 2
  /\ exportToPDF_begin
  /\ UNCHANGED <<editorVars, env, calendar>>

\* A click on the button: handleExportPDF returns at once when isExporting
\* is set (the state update of a click is rendered before the next click is
\* handled, so the handler reads the current flag); otherwise it sets the
\* flag and calls exportToPDF.
handleExportPDF ==
  /\ ~isExporting
  /\ isExporting' = TRUE
  /\ alerts' = 0
  /\ inFlight' = inFlight + 1
  /\ exportToPDF_begin
  /\ UNCHANGED <<editorVars, env, calendar>>

\* document.fonts.ready resolves: html2canvas is called with scale: quality.
fontsReady ==
  /\ run.pc = "fonts"
  /\ run' = [run EXCEPT !.pc = "capture", !.scale = exportToPDF_quality(env)]
  /\ UNCHANGED <<editorVars, isExporting, inFlight, body, pdf, alerts, env, calendar>>

\* The rest of the page loop after the try/catch of a page, with attached
\* the containers left after the cleanup: the next iteration adds a page
\* and a container and awaits the fonts, or the loop ends and the PDF is
\* saved.
exportToPDF_afterCapture(p, failed, attached) ==
  IF run.pageIndex + 1 < run.totalPages
  THEN /\ run' = [run EXCEPT !.pc = "fonts", !.pageIndex = @ + 1,
                             !.failed = failed]
       /\ pdf' = [p EXCEPT !.pages = @ + 1]
       /\ body' = attached + 1
  ELSE LET saved == exportToPDF_save(p) IN
       /\ run' = [run EXCEPT !.pc = "settled", !.failed = failed,
                             !.outcome = saved.outcome]
       /\ pdf' = saved.pdf
       /\ body' = attached

\* html2canvas settles with its rejection not caught: the export rejects
\* at the failing page.
html2canvas_settle_uncaught ==
  /\ run.pc = "capture"
  /\ \E ok \in BOOLEAN :
       IF ok
       THEN exportToPDF_afterCapture(
              [pdf EXCEPT !.images = Append(@, run.pageIndex + 1)], run.failed,
              body - 1)
       ELSE /\ run' = [run EXCEPT !.pc = "settled", !.outcome = "rejected",
                                  !.failed = @ \cup {run.pageIndex + 1}]
            /\ pdf' = pdf
            /\ body' = body
  /\ UNCHANGED <<editorVars, isExporting, inFlight, alerts, env, calendar>>

\* html2canvas settles with the container removed inside the try block: a
\* failing capture leaves it attached.
html2canvas_settle_noCleanup ==
  /\ run.pc = "capture"
  /\ \E ok \in BOOLEAN :
       IF ok
       THEN exportToPDF_afterCapture(
              [pdf EXCEPT !.images = Append(@, run.pageIndex + 1)], run.failed,
              body - 1)
       ELSE exportToPDF_afterCapture(pdf, run.failed \cup {run.pageIndex + 1},
                                     body)
  /\ UNCHANGED <<editorVars, isExporting, inFlight, alerts, env, calendar>>

\* html2canvas settles: on success the image is added to the current page
\* of the PDF; a rejection (or a failing toDataURL/addImage) is caught and
\* logged.  Then the loop goes on.
html2canvas_settle ==
  /\ run.pc = "capture"
  /\ \E ok \in BOOLEAN :
       IF ok
       THEN exportToPDF_afterCapture(
              [pdf EXCEPT !.images = Append(@, run.pageIndex + 1)], run.failed,
              body - 1)
       ELSE exportToPDF_afterCapture(pdf, run.failed \cup {run.pageIndex + 1},
                                     body - 1)
  /\ UNCHANGED <<editorVars, isExporting, inFlight, alerts, env, calendar>>

\* handleExportPDF resuming with the flag cleared at the end of the try
\* block instead of in a finally block: a rejection leaves it set.
handleExportPDF_resume_noFinally ==
  /\ run.pc = "settled"
  /\ alerts' = (IF run.outcome = "rejected" THEN alerts + 1 ELSE alerts)
  /\ isExporting' = (run.outcome = "rejected")
  /\ inFlight' = inFlight - 1
  /\ run' = [run EXCEPT !.pc = "idle"]
  /\ UNCHANGED <<editorVars, body, pdf, env, calendar>>

\* handleExportPDF resumes after the await: the catch block alerts when
\* exportToPDF rejected; the finally block clears the busy flag.
handleExportPDF_resume ==
  /\ run.pc = "settled"
  /\ alerts' = (IF run.outcome = "rejected" THEN alerts + 1 ELSE alerts)
  /\ isExporting' = FALSE
  /\ inFlight' = inFlight - 1
  /\ run' = [run EXCEPT !.pc = "idle"]
  /\ UNCHANGED <<editorVars, body, pdf, env, calendar>>

NextExport ==
  handleExportPDF \/ fontsReady \/ html2canvas_settle \/ handleExportPDF_resume

SpecExport == InitExport /\ [][NextExport]_vars

\* Every awaited step of a running export eventually settles, and the
\* continuation of handleExportPDF runs once exportToPDF has settled.
SpecExportFair ==
  /\ InitExport
  /\ [][NextExport]_vars
  /\ WF_vars(fontsReady)
  /\ WF_vars(html2canvas_settle)
  /\ WF_vars(handleExportPDF_resume)

(***************************************************************************)
(* The month grid of the calendar project (utils/calendar.ts).             *)
(***************************************************************************)
MaxYears == 28

MONTH_NAMES ==
  <<"JANUARY", "FEBRUARY", "MARCH", "APRIL", "MAY", "JUNE",
    "JULY", "AUGUST", "SEPTEMBER", "OCTOBER", "NOVEMBER", "DECEMBER">>

getMonthName(month) == MONTH_NAMES[month + 1]

IsLeapYear(y) == (y % 4 = 0 /\ y % 100 # 0) \/ y % 400 = 0

\* Days of month m (0-based) of the Gregorian year y.
DaysInMonth(y, m) ==
  IF m = 1 THEN (IF IsLeapYear(y) THEN 29 ELSE 28)
  ELSE IF m \in {3, 5, 8, 10} THEN 30 ELSE 31

\* new Date(year, ...) takes a year from 0 to 99 as 1900 + year.
Date_fullYear(year) == IF year >= 0 /\ year <= 99 THEN 1900 + year ELSE year

\* Day of the week (0 = Sunday) of January 1 of the year y >= 1.
Date_dayOfJan1(y) ==
  (1 + 5 * ((y - 1) % 4) + 4 * ((y - 1) % 100) + 6 * ((y - 1) % 400)) % 7

\* Days of the year y before its month m.
Date_daysBefore(y, m) ==
  LET s[k \in 0..m] == IF k = 0 THEN 0 ELSE s[k - 1] + DaysInMonth(y, k - 1)
  IN  s[m]

\* new Date(year, month, day) for month in 0..12 and a day that lies at most
\* one month outside the month, as getDate, getMonth, getFullYear and getDay
\* read it.
Date(year, month, day) ==
  LET y0 == Date_fullYear(year)
      y1 == IF month = 12 THEN y0 + 1 ELSE y0
      m1 == IF month = 12 THEN 0 ELSE month
      dim == DaysInMonth(y1, m1)
      y2 == IF day < 1 /\ m1 = 0 THEN y1 - 1
            ELSE IF day > dim /\ m1 = 11 THEN y1 + 1 ELSE y1
      m2 == IF day < 1 THEN (IF m1 = 0 THEN 11 ELSE m1 - 1)
            ELSE IF day > dim THEN (IF m1 = 11 THEN 0 ELSE m1 + 1) ELSE m1
      d2 == IF day < 1 THEN DaysInMonth(y2, m2) + day
            ELSE IF day > dim THEN day - dim ELSE day
  IN  [year |-> y2, month |-> m2, date |-> d2,
       day |-> (Date_dayOfJan1(y2) + Date_daysBefore(y2, m2) + d2 - 1) % 7]

CalendarDay(date, month, year, isCurrentMonth) ==
  [date |-> date, month |-> month, year |-> year,
   isCurrentMonth |-> isCurrentMonth]

RECURSIVE generateMonthCalendar_days(_, _, _, _, _, _)
\* for (let day = 1; day <= daysInMonth; day++): weeks and currentWeek after
\* the loop.
generateMonthCalendar_days(year, month, day, daysInMonth, weeks, currentWeek) ==
  IF day > daysInMonth THEN [weeks |-> weeks, currentWeek |-> currentWeek]
  ELSE LET pushed == Append(currentWeek, CalendarDay(day, month, year, TRUE)) IN
       IF Len(pushed) = 7
       THEN generateMonthCalendar_days(year, month, day + 1, daysInMonth,
                                       Append(weeks, pushed), <<>>)
       ELSE generateMonthCalendar_days(year, month, day + 1, daysInMonth,
                                       weeks, pushed)

\* generateMonthCalendar with the last week pushed as it is, without the
\* days of the next month.
generateMonthCalendar_noTrailing(year, month) ==
  LET firstDayOfWeek == Date(year, month, 1).day
      daysInMonth == Date(year, month + 1, 0).date
      leading ==
        [i \in 1..firstDayOfWeek |->
           LET prevMonthDate == Date(year, month, 0 - (firstDayOfWeek - (i - 1) - 1))
           IN  CalendarDay(prevMonthDate.date, prevMonthDate.month,
                           prevMonthDate.year, FALSE)]
      filled == generateMonthCalendar_days(year, month, 1, daysInMonth, <<>>, leading)
      remainingDays == 7 - Len(filled.currentWeek)
      trailing ==
        [i \in 1..remainingDays |->
           LET nextMonthDate == Date(year, month + 1, i)
           IN  CalendarDay(nextMonthDate.date, nextMonthDate.month,
                           nextMonthDate.year, FALSE)]
  IN  [month |-> month, year |-> year, monthName |-> getMonthName(month),
       days |-> IF Len(filled.currentWeek) > 0
                THEN Append(filled.weeks, filled.currentWeek)
                ELSE filled.weeks]

\* generateMonthCalendar(year, month): the MonthData of the month.
generateMonthCalendar(year, month) ==
  LET firstDayOfWeek == Date(year, month, 1).day
      daysInMonth == Date(year, month + 1, 0).date
      leading ==
        [i \in 1..firstDayOfWeek |->
           LET prevMonthDate == Date(year, month, 0 - (firstDayOfWeek - (i - 1) - 1))
           IN  CalendarDay(prevMonthDate.date, prevMonthDate.month,
                           prevMonthDate.year, FALSE)]
      filled == generateMonthCalendar_days(year, month, 1, daysInMonth, <<>>, leading)
      remainingDays == 7 - Len(filled.currentWeek)
      trailing ==
        [i \in 1..remainingDays |->
           LET nextMonthDate == Date(year, month + 1, i)
           IN  CalendarDay(nextMonthDate.date, nextMonthDate.month,
                           nextMonthDate.year, FALSE)]
  IN  [month |-> month, year |-> year, monthName |-> getMonthName(month),
       days |-> IF Len(filled.currentWeek) > 0
                THEN Append(filled.weeks, filled.currentWeek \o trailing)
                ELSE filled.weeks]

generateYearCalendar(year) ==
  [k \in 1..12 |-> generateMonthCalendar(year, k - 1)]

\* The years the calendar is generated for: years the Date constructor
\* takes as 1900 + year, century years, and a run of years that has every
\* weekday as January 1 in leap and common years.
Years == {0, 4, 99, 100, 400, 1900, 2100} \cup (2000..(2000 + MaxYears))

InitCalendar ==
  /\ EditorInit(<<>>)
  /\ ExportIdle
  /\ env = [editorFound |-> TRUE, quality |-> Absent, saveThrows |-> FALSE]
  /\ calendar = NoCalendar

\* A call of generateMonthCalendar(year, month).
CallGenerateMonthCalendar ==
  \E year \in Years, month \in 0..11 :
    /\ calendar' = [year |-> year, month |-> month,
                    days |-> generateMonthCalendar(year, month).days,
                    months |-> <<>>]
    /\ UNCHANGED <<editorVars, exportVars>>

\* A call of generateYearCalendar(year), as the App makes in every render.
CallGenerateYearCalendar ==
  \E year \in Years :
    /\ calendar' = [year |-> year, month |-> 0,
                    days |-> <<>>,
                    months |-> generateYearCalendar(year)]
    /\ UNCHANGED <<editorVars, exportVars>>

NextCalendar == CallGenerateMonthCalendar \/ CallGenerateYearCalendar

SpecCalendar == InitCalendar /\ [][NextCalendar]_vars

(***************************************************************************)
(* Vocabulary of the properties: the document as a sequence of top-level   *)
(* blocks, independent of the page breaker's own bookkeeping.              *)
(***************************************************************************)
NumBlocks == Len(doc)

\* Estimated height of the i-th top-level block.
H(i) == estimateNodeHeight(doc[i])

\* Document offset at which the i-th top-level block starts.
Off(i) ==
  LET o[j \in 1..i] == IF j = 1 THEN 0 ELSE o[j - 1] + nodeSize(doc[j - 1])
  IN  o[i]

Breaks == pluginState.pageBreaks

\* Number of break records placed at the start of block i.
BreaksAt(i) == Cardinality({k \in 1..Len(Breaks) : Breaks[k].pos = Off(i)})

BreakBefore(i) == BreaksAt(i) > 0

\* First block of the page that is current when block i is visited (i > 1).
OpenPageStart(i) ==
  CHOOSE j \in 1..(i - 1) :
    /\ j = 1 \/ BreakBefore(j)
    /\ \A m \in (j + 1)..(i - 1) : ~BreakBefore(m)

\* Sum of the estimates of blocks a..b.
SumH(a, b) ==
  LET s[j \in (a - 1)..b] == IF j = a - 1 THEN 0 ELSE s[j - 1] + H(j)
  IN  s[b]

\* Height already on the current page when block i is visited.
HeightBefore(i) == IF i = 1 THEN 0 ELSE SumH(OpenPageStart(i), i - 1)

IsSentinel(i) == doc[i].type = "pageBreak"

IsOversized(i) == H(i) > 995

(***************************************************************************)
(* C1: the break list is the one of the greedy first-fit pass: a break is  *)
(* recorded before block i exactly when the height already on the page is  *)
(* positive and adding the block's estimate exceeds 995; its               *)
(* remainingSpace is 995 minus the height before the block; the records    *)
(* are in document order, one per break, and each one starts a new page.   *)
(***************************************************************************)
C1_GreedyFirstFit ==
  /\ \A i \in 1..NumBlocks :
       BreakBefore(i) <=> (HeightBefore(i) + H(i) > 995 /\ HeightBefore(i) > 0)
  /\ \A i \in 1..NumBlocks : BreaksAt(i) <= 1
  /\ \A k \in 1..Len(Breaks) :
       \E i \in 1..NumBlocks :
         /\ Breaks[k].pos = Off(i)
         /\ Breaks[k].remainingSpace = 995 - HeightBefore(i)
  /\ \A k \in 1..(Len(Breaks) - 1) : Breaks[k].pos < Breaks[k + 1].pos
  /\ pluginState.pageCount = 1 + Cardinality({i \in 1..NumBlocks : BreakBefore(i)})

C1_Witness ==
  /\ NumBlocks >= 3
  /\ Len(Breaks) >= 1
  /\ \E i \in 2..NumBlocks : ~BreakBefore(i)

(***************************************************************************)
(* C2: the result always has pageCount >= 1, and for the empty document    *)
(* it is pageCount = 1 with no breaks.                                     *)
(***************************************************************************)
C2_Totality ==
  /\ pluginState.pageCount \in Nat /\ pluginState.pageCount >= 1
  /\ doc = <<>> => pluginState.pageCount = 1 /\ Breaks = <<>>

C2_Witness == doc = <<>> /\ pluginState.pageCount = 1 /\ Breaks = <<>>

(***************************************************************************)
(* C3: pageCount is the number of break records plus one.                  *)
(***************************************************************************)
C3_PageCountIsBreaksPlusOne == pluginState.pageCount = Len(Breaks) + 1

C3_Witness == Len(Breaks) >= 2 /\ pluginState.pageCount = 3

C5_PageNumberIsNextPage ==
  \A k \in 1..Len(Breaks) : Breaks[k].pageNumber = k + 1

(***************************************************************************)
(* C6: a pageBreak node met while the page has content forces a break at   *)
(* its position with remainingSpace = 995 - height so far, and adds no     *)
(* height; [heading 1, pageBreak, paragraph] gives one break, two pages    *)
(* and remainingSpace 939.                                                 *)
(***************************************************************************)
C6_ManualBreakForcesBoundary ==
  /\ \A i \in 2..NumBlocks :
       IsSentinel(i) /\ ~IsSentinel(i - 1) => BreakBefore(i)
  /\ doc = <<Heading(1), PageBreak, Paragraph(50)>> =>
       /\ Len(Breaks) = 1
       /\ pluginState.pageCount = 2
       /\ Breaks[1].remainingSpace = 939

(***************************************************************************)
(* Vocabulary of the export properties.                                    *)
(***************************************************************************)
Children == editorChildren(doc, Breaks)

ExportPages == pdfExport_calculatePageBreaks(Children)

IsWidgetIn(ch, c) == "pm-page-break-widget" \in ch[c].classList

IsManualIn(ch, c) == "manual-page-break" \in ch[c].classList

IsContentIn(ch, c) == ~IsWidgetIn(ch, c) /\ ~IsManualIn(ch, c)

IsWidgetChild(c) == IsWidgetIn(Children, c)

IsManualChild(c) == IsManualIn(Children, c)

IsContentChild(c) == IsContentIn(Children, c)

\* Page (1-based) of the pages pg that holds the child with 1-based index c.
PageOfIn(pg, c) ==
  CHOOSE p \in 1..Len(pg) : \E k \in 1..Len(pg[p]) : pg[p][k] = c - 1

ExportPageOf(c) == PageOfIn(ExportPages, c)

(***************************************************************************)
(* C7: two pageBreak nodes with no content block between them get at most  *)
(* one break record (live), and in the export there is no page between     *)
(* them: no page is empty, and the content before the first and the        *)
(* content after the second are on the same page or on consecutive pages.  *)
(***************************************************************************)
C7_ManualBreaksCollapse ==
  LET ch == Children
      pg == pdfExport_calculatePageBreaks(ch)
  IN
  /\ \A i \in 1..(NumBlocks - 1) :
       IsSentinel(i) /\ IsSentinel(i + 1) => BreaksAt(i) + BreaksAt(i + 1) <= 1
  /\ \A p \in 1..Len(pg) : Len(pg[p]) > 0
  /\ \A a, b \in 1..Len(ch) :
       /\ a < b
       /\ IsManualIn(ch, a) /\ IsManualIn(ch, b)
       /\ \A c \in a..b : ~IsContentIn(ch, c)
       => \A x \in 1..(a - 1) : \A y \in (b + 1)..Len(ch) :
            /\ IsContentIn(ch, x) /\ \A c \in x + 1..a : ~IsContentIn(ch, c)
            /\ IsContentIn(ch, y) /\ \A c \in b..y - 1 : ~IsContentIn(ch, c)
            => PageOfIn(pg, y) - PageOfIn(pg, x) <= 1

C7_Witness ==
  /\ \E i \in 2..(NumBlocks - 2) :
       /\ IsSentinel(i) /\ IsSentinel(i + 1)
       /\ ~IsSentinel(i - 1) /\ ~IsSentinel(i + 2)
  /\ Len(ExportPages) = 2
  /\ \E i \in 1..(NumBlocks - 1) :
       IsSentinel(i) /\ IsSentinel(i + 1) /\ BreakBefore(i)

(***************************************************************************)
(* C8: a block whose estimate exceeds 995 is alone on its page: it has at  *)
(* most one break right before it, none when it is the first block, one    *)
(* when it is not; the block after it starts a new page with exactly one   *)
(* break.                                                                  *)
(***************************************************************************)
C8_OversizedAlone ==
  \A i \in 1..NumBlocks :
    IsOversized(i) =>
      /\ BreaksAt(i) <= 1
      /\ i = 1 => ~BreakBefore(i)
      /\ i > 1 => BreakBefore(i)
      /\ i < NumBlocks => BreaksAt(i + 1) = 1
      /\ Len(Breaks) = Cardinality({j \in 1..NumBlocks : BreakBefore(j)})

C8_Witness ==
  /\ NumBlocks >= 3
  /\ IsOversized(1) /\ ~BreakBefore(1) /\ BreakBefore(2)
  /\ \E i \in 2..(NumBlocks - 1) :
       IsOversized(i) /\ ~IsOversized(i - 1) /\ BreakBefore(i) /\ BreakBefore(i + 1)

(***************************************************************************)
(* C9: in a document of n paragraphs of at most 70 characters every full   *)
(* page holds exactly 22 paragraphs: breaks stand before paragraphs 23,    *)
(* 45, ... and nowhere else, so n <= 22 gives one page and 23 <= n <= 44   *)
(* gives two pages with a single break before the 23rd paragraph.  The     *)
(* break's pos is the document offset of that paragraph.                   *)
(***************************************************************************)
C9_TwentyTwoPerPage ==
  /\ \A i \in 1..NumBlocks : H(i) = 44
  /\ \A i \in 1..NumBlocks : BreakBefore(i) <=> (i > 1 /\ (i - 1) % 22 = 0)
  /\ Len(Breaks) = (IF NumBlocks = 0 THEN 0 ELSE (NumBlocks - 1) \div 22)
  /\ pluginState.pageCount = Len(Breaks) + 1
  /\ NumBlocks <= 22 => pluginState.pageCount = 1 /\ Breaks = <<>>
  /\ NumBlocks = 40 =>
       /\ pluginState.pageCount = 2
       /\ Len(Breaks) = 1
       /\ Breaks[1].pos = Off(23)

C9_Witness ==
  /\ NumBlocks = 40
  /\ Len(Breaks) = 1
  /\ Breaks[1].pos = 22 * 52

\* C9 as stated: the position of the single break of 40 paragraphs is 22.
C9_PositionIs22 ==
  /\ NumBlocks <= 22 => pluginState.pageCount = 1 /\ Breaks = <<>>
  /\ NumBlocks = 40 =>
       /\ pluginState.pageCount = 2
       /\ Len(Breaks) = 1
       /\ Breaks[1].pos = 22

(***************************************************************************)
(* C11: every break position is the offset at which some top-level block   *)
(* starts; none lies strictly inside a top-level block, whatever the       *)
(* nesting of the block.                                                   *)
(***************************************************************************)
C11_BreaksBetweenTopLevelBlocks ==
  \A k \in 1..Len(Breaks) :
    /\ \E i \in 1..NumBlocks : Breaks[k].pos = Off(i)
    /\ \A i \in 1..NumBlocks :
         ~(Off(i) < Breaks[k].pos /\ Breaks[k].pos < Off(i) + nodeSize(doc[i]))

C11_Witness ==
  /\ NumBlocks = 3
  /\ Depth(doc[2]) >= 2
  /\ BreakBefore(2)
  /\ Len(Breaks) >= 1

(***************************************************************************)
(* C12: every break record's remainingSpace is the unused height of the    *)
(* page that ends at the break: 0 <= remainingSpace < 995, so the gap      *)
(* height remainingSpace + 40 + 64 + 64 is at least 168.                   *)
(***************************************************************************)
C12_RemainingSpaceInRange ==
  \A k \in 1..Len(Breaks) :
    /\ 0 <= Breaks[k].remainingSpace
    /\ Breaks[k].remainingSpace < 995
    /\ Breaks[k].remainingSpace + 40 + 64 + 64 >= 168

(***************************************************************************)
(* Vocabulary of the estimator properties.                                 *)
(***************************************************************************)
RECURSIVE AllNodes(_)
\* A node and all the nodes below it.
AllNodes(node) ==
  {node} \cup UNION {AllNodes(node.content[i]) : i \in 1..Len(node.content)}

DocNodes == UNION {AllNodes(doc[i]) : i \in 1..NumBlocks}

\* Sum of the estimates of the children of a node.
SumChildEstimates(node) ==
  LET ch == node.content
      sum[i \in 0..Len(ch)] ==
        IF i = 0 THEN 0 ELSE sum[i - 1] + estimateNodeHeight(ch[i])
  IN  sum[Len(ch)]

\* The height table of the estimator, one level deep.
TableHeight(node) ==
  CASE node.type = "heading" /\ node.level = 1 -> 56
    [] node.type = "heading" /\ node.level = 2 -> 44
    [] node.type = "heading" /\ node.level \notin {1, 2} -> 36
    [] node.type = "paragraph" ->
         (IF node.textLength = 0 THEN 1
          ELSE (node.textLength + 69) \div 70) * 28 + 16
    [] node.type \in {"bulletList", "orderedList"} -> 16 + SumChildEstimates(node)
    [] node.type = "listItem" ->
         IF SumChildEstimates(node) < 28 THEN 28 ELSE SumChildEstimates(node)
    [] node.type = "blockquote" -> 32 + SumChildEstimates(node)
    [] node.type = "codeBlock" -> (node.newlines + 1) * 24 + 32
    [] node.type = "horizontalRule" -> 40
    [] OTHER -> 28

(***************************************************************************)
(* C13: estimateNodeHeight is defined for every node and follows the       *)
(* table: headings 56 / 44 / 36, paragraph max(1, ceil(len/70)) * 28 + 16, *)
(* lists 16 + children, list item max(28, children), blockquote 32 +       *)
(* children, code block (newlines + 1) * 24 + 32, horizontal rule 40, any  *)
(* other type 28.                                                          *)
(***************************************************************************)
C13_EstimateFollowsTable ==
  /\ \A n \in DocNodes : estimateNodeHeight(n) = TableHeight(n)
  /\ \A n \in DocNodes : n.type = "paragraph" /\ n.textLength = 0 =>
       estimateNodeHeight(n) = 44

C13_Witness ==
  /\ NumBlocks = 1
  /\ doc[1].type = "blockquote"
  /\ Depth(doc[1]) = 2
  /\ \E n \in DocNodes : n.type = "listItem" /\ Len(n.content) = 2
  /\ estimateNodeHeight(doc[1]) = 32 + 44 + 72

C15_LayoutConstants ==
  /\ \A k \in 1..Len(Breaks) :
       \E i \in 1..NumBlocks :
         /\ Breaks[k].pos = Off(i)
         /\ Breaks[k].remainingSpace + HeightBefore(i) = WEB_CONTENT_HEIGHT_PX
  /\ A4_WIDTH = 794 /\ WEB_A4_WIDTH_PX = 794
  /\ A4_HEIGHT = 1123 /\ WEB_A4_HEIGHT_PX = 1123
  /\ {PAGE_MARGIN_TOP, PAGE_MARGIN_BOTTOM, PAGE_MARGIN_LEFT, PAGE_MARGIN_RIGHT} = {64}
  /\ {WEB_PAGE_MARGIN_TOP_PX, WEB_PAGE_MARGIN_BOTTOM_PX,
      WEB_PAGE_MARGIN_LEFT_PX, WEB_PAGE_MARGIN_RIGHT_PX} = {64}
  /\ CONTENT_HEIGHT = 995 /\ WEB_CONTENT_HEIGHT_PX = 995
  /\ CONTENT_WIDTH = 666 /\ WEB_CONTENT_WIDTH_PX = 666
  /\ CONTENT_HEIGHT = 1123 - 64 - 64 /\ CONTENT_WIDTH = 794 - 64 - 64

C15_Witness ==
  /\ Len(Breaks) >= 1
  /\ Len(ExportPages) >= 2
  /\ \E k \in 1..Len(Breaks) : Breaks[k].remainingSpace = 995 - 968

(***************************************************************************)
(* C16: the plugin recomputes only on content change: a transaction with   *)
(* docChanged = false leaves the plugin state as it was and makes no call  *)
(* of calculatePageBreaks; a transaction with docChanged = true makes      *)
(* exactly one.  A transaction that changes the document has docChanged.   *)
(***************************************************************************)
IsTransactionStep == ~viewPending /\ viewPending'

C16_RecomputeOnlyOnChange ==
  [][IsTransactionStep =>
       /\ lastTr'.docChanged => lastTr'.calls = 1
       /\ ~lastTr'.docChanged => lastTr'.calls = 0 /\ pluginState' = pluginState
       /\ doc' # doc => lastTr'.docChanged]_vars

C16_Witness ==
  /\ viewPending
  /\ ~lastTr.docChanged
  /\ lastTr.calls = 0
  /\ Len(Breaks) >= 1

(***************************************************************************)
(* C17: after any sequence of transactions the result held by the plugin   *)
(* is calculatePageBreaks of the current document.                         *)
(***************************************************************************)
C17_ResultNeverStale == pluginState = calculatePageBreaks(doc)

C17_Witness ==
  /\ ~lastTr.docChanged
  /\ selection = 0
  /\ Len(Breaks) >= 2
  /\ NumBlocks = 3

(***************************************************************************)
(* C18: building the decorations changes neither the document nor the      *)
(* plugin state, dispatches no transaction and triggers no recomputation.  *)
(***************************************************************************)
IsPresentationStep == viewPending /\ ~viewPending'

C18_PresentingHasNoSideEffect ==
  [][IsPresentationStep =>
       /\ doc' = doc
       /\ pluginState' = pluginState
       /\ selection' = selection
       /\ lastTr' = lastTr]_vars

C18_Witness ==
  /\ ~viewPending
  /\ Len(decorationSet) >= 1
  /\ lastTr.docChanged
  /\ pluginState = calculatePageBreaks(doc)

(***************************************************************************)
(* C19: the presenter yields one marker per break record, in the same      *)
(* order and at the break's position, none without breaks; each marker is  *)
(* non-editable, labelled "Page N of pageCount" with N the record's        *)
(* pageNumber, and has gap height remainingSpace + 40 + 64 + 64.           *)
(***************************************************************************)
C19_OneMarkerPerBreak ==
  ~viewPending =>
    /\ Len(decorationSet) = Len(Breaks)
    /\ \A k \in 1..Len(Breaks) :
         /\ decorationSet[k].pos = Breaks[k].pos
         /\ decorationSet[k].contentEditable = "false"
         /\ decorationSet[k].label.page = Breaks[k].pageNumber
         /\ decorationSet[k].label.of = pluginState.pageCount
         /\ decorationSet[k].gapHeight = Breaks[k].remainingSpace + 40 + 64 + 64

C19_Witness ==
  /\ ~viewPending
  /\ Len(decorationSet) = 2
  /\ decorationSet[2].label.of = 3

(***************************************************************************)
(* C20: the export page assignment is a partition of the content children: *)
(* every child that is neither a widget nor a manual break is on exactly   *)
(* one page, widgets and manual breaks are on none and add no height (a    *)
(* page ends only at a manual break or when the next content child would   *)
(* overflow the content children already on it), indices increase within   *)
(* a page and from page to page, and no page is empty.                     *)
(***************************************************************************)
C20_ExportPartition ==
  LET ch == Children
      pg == pdfExport_calculatePageBreaks(ch)
      Slots == {<<p, k>> \in (1..Len(pg)) \X (1..Len(ch)) : k <= Len(pg[p])}
      Holders(c) == {sl \in Slots : pg[sl[1]][sl[2]] = c - 1}
      PageHeight(p) ==
        LET sum[k \in 0..Len(pg[p])] ==
              IF k = 0 THEN 0
              ELSE sum[k - 1] + pdfExport_estimateNodeHeight(ch[pg[p][k] + 1])
        IN  sum[Len(pg[p])]
  IN
  /\ \A sl \in Slots : pg[sl[1]][sl[2]] \in 0..(Len(ch) - 1)
  /\ \A c \in 1..Len(ch) :
       Cardinality(Holders(c)) = (IF IsContentIn(ch, c) THEN 1 ELSE 0)
  /\ \A p \in 1..Len(pg) :
       /\ Len(pg[p]) > 0
       /\ \A k \in 1..(Len(pg[p]) - 1) : pg[p][k] < pg[p][k + 1]
  /\ \A p \in 1..(Len(pg) - 1) :
       /\ pg[p][Len(pg[p])] < pg[p + 1][1]
       /\ \/ \E c \in (pg[p][Len(pg[p])] + 2)..pg[p + 1][1] : IsManualIn(ch, c)
          \/ PageHeight(p) + pdfExport_estimateNodeHeight(ch[pg[p + 1][1] + 1]) > 995

C20_Witness ==
  /\ NumBlocks = 4
  /\ Len(ExportPages) >= 2
  /\ \E c \in 1..Len(Children) : IsWidgetChild(c)
  /\ \E c \in 1..Len(Children) : IsManualChild(c)
  /\ \E p \in 1..Len(ExportPages) : Len(ExportPages[p]) >= 2

(***************************************************************************)
(* Vocabulary relating the rendered children to the top-level blocks.      *)
(***************************************************************************)
\* Index of the top-level block rendered as the child with 1-based index c
\* (every block renders as one child; widgets belong to no block).
BlockOfChild(ch, c) == Cardinality({x \in 1..c : ~IsWidgetIn(ch, x)})

\* The export estimate of the element block i is rendered as.
ExportH(i) == pdfExport_estimateNodeHeight(renderHTML(doc[i]))

(***************************************************************************)
(* C21: the export paginator and the live page breaker place the same      *)
(* boundaries: when both estimate every content block alike, the number    *)
(* of export pages is the live pageCount, and export page k (k >= 2)       *)
(* starts with the block before which live break k - 1 is placed.          *)
(***************************************************************************)
C21_SamePlacement ==
  LET ch == Children
      pg == pdfExport_calculatePageBreaks(ch)
  IN
  (\A i \in 1..NumBlocks : ~IsSentinel(i) => H(i) = ExportH(i))
  => /\ Len(pg) = pluginState.pageCount
     /\ \A k \in 2..Len(pg) :
          /\ k - 1 <= Len(Breaks)
          /\ Breaks[k - 1].pos = Off(BlockOfChild(ch, pg[k][1] + 1))

(***************************************************************************)
(* C22: the export estimate of the element a top-level block is rendered   *)
(* as equals the live estimate of the block (headings 1-3, paragraphs,     *)
(* lists, blockquotes, code blocks, horizontal rules and other blocks).    *)
(***************************************************************************)
C22_ExportTableAgrees ==
  \A i \in 1..NumBlocks :
    /\ ~IsSentinel(i)
    /\ doc[i].type = "heading" => doc[i].level <= 3
    => ExportH(i) = H(i)

(***************************************************************************)
(* Vocabulary of the export run.                                           *)
(***************************************************************************)
RunOver == run.pc \in {"settled", "idle"}

\* Pages (1-based) whose capture has settled.
PagesDone == IF RunOver THEN 1..run.totalPages ELSE 1..run.pageIndex

ImagePages == {pdf.images[k] : k \in 1..Len(pdf.images)}

(***************************************************************************)
(* C23: a capture that fails is caught and the export goes on: the images  *)
(* of the PDF are those of the captured pages that did not fail, in page   *)
(* order; every page is captured; and unless saving itself fails the PDF   *)
(* is saved and exportToPDF resolves.                                      *)
(***************************************************************************)
C23_RasterFailureIsCaught ==
  /\ run.failed \subseteq PagesDone
  /\ ImagePages = PagesDone \ run.failed
  /\ \A k \in 1..(Len(pdf.images) - 1) : pdf.images[k] < pdf.images[k + 1]
  /\ RunOver /\ run.totalPages > 0 /\ ~env.saveThrows
       => pdf.saved /\ run.outcome = "resolved"
  /\ RunOver /\ run.totalPages > 0 => pdf.pages = run.totalPages

C23_Witness ==
  /\ run.pc = "idle"
  /\ run.totalPages = 3
  /\ run.failed = {2}
  /\ pdf.images = <<1, 3>>
  /\ pdf.saved
  /\ alerts = 0

(***************************************************************************)
(* C24: when the content element is not found, exportToPDF creates no      *)
(* render container and saves no PDF, and it rejects, so handleExportPDF   *)
(* shows one alert; an export that resolves shows no alert.                *)
(***************************************************************************)
C24_MissingContentIsSurfaced ==
  /\ ~env.editorFound =>
       /\ body = 0
       /\ pdf = NoPdf
       /\ run.pc = "settled" => run.outcome = "rejected"
       /\ run.pc = "idle" /\ run.outcome # "none" => alerts = 1
  /\ run.pc = "idle" /\ run.outcome = "resolved" /\ env.editorFound => alerts = 0

(***************************************************************************)
(* C25: the scale given to html2canvas is the quality option clamped to    *)
(* 1..4: 1 for a smaller value, 4 for a larger one, the value itself       *)
(* inside the range, and 2 when the option is absent.                      *)
(***************************************************************************)
ClampedQuality ==
  IF env.quality = Absent THEN 2
  ELSE IF env.quality[1] < 1 THEN 1
  ELSE IF env.quality[1] > 4 THEN 4
  ELSE env.quality[1]

C25_QualityIsClamped == run.pc = "capture" => run.scale = ClampedQuality

(***************************************************************************)
(* C26: at most one export is in flight: a call of exportToPDF is running  *)
(* exactly while the busy flag isExporting is set, and a call starts only  *)
(* when none is running.                                                   *)
(***************************************************************************)
C26_AtMostOneExport ==
  /\ inFlight \in {0, 1}
  /\ isExporting <=> inFlight = 1
  /\ run.pc # "idle" <=> inFlight = 1

C26_Witness ==
  /\ isExporting
  /\ inFlight = 1
  /\ run.pc = "capture"
  /\ run.pageIndex = 1
  /\ body = 1

(***************************************************************************)
(* C27: the pages of one export are captured one after the other in page   *)
(* order: the page index moves only from a page whose capture has settled  *)
(* to the next page; at most one render container is attached at any      *)
(* time, exactly one while a page is being prepared or captured, and none  *)
(* once the export is over, whether captures failed or not.                *)
(***************************************************************************)
ContainersInOrder ==
  /\ body \in {0, 1}
  /\ body = 1 <=> run.pc \in {"fonts", "capture"}
  /\ RunOver => body = 0
  /\ ~RunOver => run.pageIndex < run.totalPages

C27_PagesSequential ==
  /\ []ContainersInOrder
  /\ [][run'.pageIndex # run.pageIndex =>
          \/ run.pc = "capture" /\ run'.pc = "fonts"
               /\ run'.pageIndex = run.pageIndex + 1
          \/ RunOver /\ run'.pageIndex = 0]_vars

C27_Witness ==
  /\ RunOver
  /\ run.totalPages = 3
  /\ run.failed = {1, 3}
  /\ body = 0
  /\ pdf.saved

(***************************************************************************)
(* C28: page-fill invariant of both greedy passes: every block estimate    *)
(* is positive, so the page is non-empty exactly when its height is        *)
(* positive; a block joins the current page only if the page's sum stays   *)
(* within 995, so only a page of one block can exceed 995.                 *)
(***************************************************************************)
C28_PageFill ==
  LET ch == Children
      pg == pdfExport_calculatePageBreaks(ch)
      PageHeight(p) ==
        LET sum[k \in 0..Len(pg[p])] ==
              IF k = 0 THEN 0
              ELSE sum[k - 1] + pdfExport_estimateNodeHeight(ch[pg[p][k] + 1])
        IN  sum[Len(pg[p])]
  IN
  /\ \A i \in 1..NumBlocks : H(i) > 0
  /\ \A i \in 1..NumBlocks : HeightBefore(i) > 0 <=> i > 1
  /\ \A i \in 2..NumBlocks : ~BreakBefore(i) => HeightBefore(i) + H(i) <= 995
  /\ \A c \in 1..Len(ch) :
       IsContentIn(ch, c) => pdfExport_estimateNodeHeight(ch[c]) > 0
  /\ \A p \in 1..Len(pg) : Len(pg[p]) >= 2 => PageHeight(p) <= 995

C28_Witness ==
  /\ NumBlocks = 4
  /\ \E i \in 1..NumBlocks : IsOversized(i)
  /\ \E i \in 3..NumBlocks : ~BreakBefore(i) /\ ~BreakBefore(i - 1)
  /\ Len(Breaks) >= 1
  /\ \E p \in 1..Len(ExportPages) : Len(ExportPages[p]) = 1
  /\ \E p \in 1..Len(ExportPages) : Len(ExportPages[p]) >= 2

(***************************************************************************)
(* C29: the busy flag is always released: once isExporting is set it       *)
(* eventually becomes false again, whether exportToPDF resolves or         *)
(* rejects, given that every awaited step settles.                         *)
(***************************************************************************)
C29_BusyFlagReleased == isExporting ~> ~isExporting

C29_Witness ==
  /\ ~isExporting
  /\ run.pc = "idle"
  /\ run.outcome = "rejected"
  /\ alerts = 1
  /\ run.totalPages >= 2

(***************************************************************************)
(* Vocabulary of the month grid.                                           *)
(***************************************************************************)
\* The k-th entry of the grid read row by row.
GridEntry(weeks, k) == weeks[((k - 1) \div 7) + 1][((k - 1) % 7) + 1]

\* The grid of a month with n days: rows of 7, 4 to 6 rows, the flagged
\* entries are the days 1..n once each, contiguous and increasing, after
\* fewer than 7 unflagged entries and followed by fewer than 7.
WellFormedMonth(data, n) ==
  LET weeks == data.days
      rows == Len(weeks)
  IN  /\ rows \in 4..6
      /\ \A w \in 1..rows : Len(weeks[w]) = 7
      /\ \E lead \in 0..6 :
           /\ 7 * rows - (lead + n) \in 0..6
           /\ \A k \in 1..(7 * rows) :
                LET e == GridEntry(weeks, k) IN
                /\ e.isCurrentMonth <=> (k > lead /\ k <= lead + n)
                /\ e.isCurrentMonth =>
                     /\ e.date = k - lead
                     /\ e.month = data.month
                     /\ e.year = data.year

\* The generated month of the state, if a single month was generated.
GeneratedMonth ==
  [month |-> calendar.month, year |-> calendar.year, days |-> calendar.days]

====
